---- MODULE Spec2Model ----
(***************************************************************************)
(* myspots: category-hierarchy resolution, the write-kml export and the    *)
(* import of places (add_place_ids, add-kml).                              *)
(*                                                                         *)
(* The model follows the sources under src:                                *)
(*   myspots/__init__.py  NotionMySpotsStore.category_graph,               *)
(*                        get_root_categories, get_placemark_style,        *)
(*                        kml_add_styles                                   *)
(*   myspots/utils.py     get_category_tree, get_root_category_mapping,    *)
(*                        get_places, place_exists, add_place_ids          *)
(*   myspots/cli.py       write_kml, add_kml, export_geojson               *)
(*   myspots.py           add_place_ids, add_kml (the script)              *)
(*                                                                         *)
(* Three specifications are defined:                                       *)
(*   SpecResolve  the three root walks of the code, one loop iteration per *)
(*                step, over every category table within the bounds        *)
(*   Spec         one run of write-kml                                     *)
(*   SpecImport   calls of add_place_ids and runs of add-kml               *)
(***************************************************************************)
EXTENDS Naturals, Sequences, FiniteSets, TLC

VARIABLES
    categories,       \* the category table of the record store, in provider order
    command,          \* the function or CLI command that was called
    pc,               \* position of the running command
    walker,           \* which root walk is running (SpecResolve)
    category_graph,   \* the DiGraph built from the table
    todo,             \* category refs / nodes still to be resolved
    primary_category, \* the category refs of the place being resolved
    start,            \* the ref or node the current walk started from
    path_to_root,     \* the walk's local: root_category_id, path_to_root or
                      \* top_level; the current node is its last element
    steps,            \* iterations of the current while loop (saturating)
    root_categories,  \* roots appended so far (get_root_categories)
    records,          \* rows appended so far (get_root_category_mapping)
    result,           \* the value returned
    error,            \* the exception that ended the command, or NoError
    no_styles,        \* write-kml --no-styles
    default_invisible,\* write-kml --default-invisible
    hierarchical,     \* write-kml --hierarchical
    categories_df,    \* write_kml's categories_df
    places,           \* the places table of the record store, once read
    places_df,        \* write_kml's places_df (one row per place and category)
    row,              \* index of the next row of places_df in the loop
    folders,          \* write_kml's folders dict: its keys in insertion order
    root_doc,         \* the KML document: features, styles, visibility
    placemarks,       \* folder name -> the placemarks appended to it
    folder_visibility,\* folder name -> visibility
    stdout,           \* what the command printed
    airtable,         \* the places table of the record store, as add_place_ids
                      \* and add_kml see it: its records in insertion order
    module,           \* the source file whose add_place_ids / add_kml runs
    place_ids,        \* add_place_ids' argument
    kml,              \* add_kml's placemarks[skip:]
    cursor,           \* index of the next element of the running for loop
    num_added,        \* the local num_added
    exceptions,       \* add_kml's exceptions list
    places_found,     \* add_kml's local places: what the last query returned
    calls             \* the add_place_ids calls that returned: the store before
                      \* and after, and the value returned

resolve_vars == <<categories, command, pc, walker, category_graph, todo,
                  primary_category, start, path_to_root, steps, root_categories, records, result, error>>
resolve_vars_but_pc == <<categories, command, walker, category_graph, todo, primary_category,
                         start, path_to_root, steps, root_categories, records, result, error>>
export_vars == <<no_styles, default_invisible, hierarchical, categories_df, places,
                 places_df, row, folders, root_doc, placemarks, folder_visibility, stdout>>
import_vars == <<airtable, module, place_ids, kml, cursor, num_added, exceptions,
                 places_found, calls>>
vars == <<resolve_vars, export_vars, import_vars>>

(***************************************************************************)
(* Bounds                                                                  *)
(***************************************************************************)
\* number of category records in the table (SpecResolve)
NumCats == 3
\* total number of parent links over the whole table
MaxEdges == 2
\* number of categories one place references
MaxRefs == 2
\* number of category records in the table of a write-kml run (Spec)
NumExportCats == 2
\* number of distinct Google place ids (SpecImport)
NumPlaceIds == 2
\* length of the place_ids list of one add_place_ids call
MaxIds == 2
\* number of add_place_ids calls made one after the other with the same list
MaxCalls == 2
\* number of placemarks in the KML file add-kml reads
MaxPlacemarks == 2
\* number of candidates a places query returns
MaxCandidates == 2

(***************************************************************************)
(* Identifiers                                                             *)
(***************************************************************************)
IdPool == <<"A", "B", "C", "D", "E", "F">>
CatIdSeq(n) == SubSeq(IdPool, 1, n)
Range(s) == {s[i] : i \in DOMAIN s}
\* an id that no category record carries
Missing == "X"
NaN == "NaN"
NoError == "none"
Uncategorized == "Uncategorized"

Last(s) == s[Len(s)]

RECURSIVE DistinctSeqs(_, _)
DistinctSeqs(S, k) ==
    IF k = 0 THEN {<<>>}
    ELSE LET shorter == DistinctSeqs(S, k - 1)
         IN  shorter \cup
             UNION {{Append(s, x) : x \in S \ Range(s)} :
                      s \in {t \in shorter : Len(t) = k - 1}}

\* ascending sequences (in IdPool order, Missing last) of at most k distinct ids
OrderedSeqs(idseq, k) ==
    LET all == Append(idseq, Missing)
    IN  {LET In(x) == x \in S IN SelectSeq(all, In) :
            S \in {T \in SUBSET Range(all) : Cardinality(T) <= k}}

(***************************************************************************)
(* The record store's category table                                       *)
(* record: {id, name (category), google_style_icon_code, parent}           *)
(* parent is the list of linked record ids (empty when the field is unset) *)
(***************************************************************************)
CategoryName(id) == "cat-" \o id

RECURSIVE ParentAssignments(_, _, _)
ParentAssignments(idseq, n, e) ==
    IF n = 0 THEN {<<>>}
    ELSE UNION {
           {Append(t, p) : t \in ParentAssignments(idseq, n - 1, e - Len(p))} :
             p \in DistinctSeqs(Range(idseq) \cup {Missing}, e)}

CategoryTables(idseq, e, icons) ==
    {[i \in 1..Len(idseq) |->
        [id |-> idseq[i], name |-> CategoryName(idseq[i]),
         google_style_icon_code |-> ic[i], parent |-> pa[i]]] :
       pa \in ParentAssignments(idseq, Len(idseq), e),
       ic \in [1..Len(idseq) -> icons]}

(***************************************************************************)
(* networkx.DiGraph, as far as the code uses it                            *)
(*   order : the nodes in insertion order                                  *)
(*   data  : node -> attributes (has = FALSE for a node that add_edge      *)
(*           created and add_node never saw)                               *)
(*   pred  : node -> predecessors in insertion order                       *)
(***************************************************************************)
NoData == [has |-> FALSE, name |-> NaN, google_style_icon_code |-> NaN]
DiGraph == [order |-> <<>>, data |-> <<>>, pred |-> <<>>]
Nodes(G) == Range(G.order)

touch(G, n) ==
    IF n \in Nodes(G) THEN G
    ELSE [order |-> Append(G.order, n),
          data  |-> [m \in Nodes(G) \cup {n} |-> IF m = n THEN NoData ELSE G.data[m]],
          pred  |-> [m \in Nodes(G) \cup {n} |-> IF m = n THEN <<>> ELSE G.pred[m]]]

add_node(G, n, name, icon) ==
    LET H == touch(G, n)
    IN  [H EXCEPT !.data[n] =
            [has |-> TRUE, name |-> name, google_style_icon_code |-> icon]]

add_edge(G, u, v) ==
    LET H == touch(touch(G, u), v)
    IN  IF u \in Range(H.pred[v]) THEN H
        ELSE [H EXCEPT !.pred[v] = Append(@, u)]

in_degree(G, n) == Len(G.pred[n])
predecessors(G, n) == G.pred[n]

\* NotionMySpotsStore.category_graph: only parent.relation[0] becomes an edge
RECURSIVE category_graph_from(_, _, _)
category_graph_from(G, table, i) ==
    IF i > Len(table) THEN G
    ELSE LET c == table[i]
             G1 == add_node(G, c.id, c.name, c.google_style_icon_code)
             G2 == IF Len(c.parent) > 0 THEN add_edge(G1, c.parent[1], c.id) ELSE G1
         IN  category_graph_from(G2, table, i + 1)

build_category_graph(table) == category_graph_from(DiGraph, table, 1)

\* utils.get_category_tree: explode("parent") gives one row per linked parent
\* (one row with a NaN parent when there is none); every row adds the node and,
\* when its parent is a string, the edge
RECURSIVE explode_parent(_, _)
explode_parent(table, i) ==
    IF i > Len(table) THEN <<>>
    ELSE LET c == table[i]
             rows == IF Len(c.parent) = 0
                     THEN <<[id |-> c.id, name |-> c.name,
                             google_style_icon_code |-> c.google_style_icon_code,
                             parent |-> NaN]>>
                     ELSE [k \in 1..Len(c.parent) |->
                            [id |-> c.id, name |-> c.name,
                             google_style_icon_code |-> c.google_style_icon_code,
                             parent |-> c.parent[k]]]
         IN  rows \o explode_parent(table, i + 1)

RECURSIVE category_tree_from(_, _, _)
category_tree_from(G, df, i) ==
    IF i > Len(df) THEN G
    ELSE LET tup == df[i]
             G1 == add_node(G, tup.id, tup.name, tup.google_style_icon_code)
             G2 == IF tup.parent # NaN THEN add_edge(G1, tup.parent, tup.id) ELSE G1
         IN  category_tree_from(G2, df, i + 1)

get_category_tree(table) == category_tree_from(DiGraph, explode_parent(table, 1), 1)

TableIdSeq(table) == [i \in DOMAIN table |-> table[i].id]

(***************************************************************************)
(* SpecResolve: the root walks, one while-iteration per step               *)
(***************************************************************************)
Walkers == {"get_root_categories", "get_root_category_mapping", "export_geojson"}

\* A walk of more than |nodes| iterations is on a cycle and never ends; from
\* there on the model stops counting (and stops recording the visited path),
\* while the loop itself keeps running.
StepCap(G) == Len(G.order) + 1
count(G, n) == IF n < StepCap(G) THEN n + 1 ELSE n
extend(G, path, more, n) == IF n < StepCap(G) THEN path \o more ELSE <<Last(more)>>

\* list(set(xs)): the elements once each, in an order the interpreter picks
ListWithDuplicates(xs) == {xs}
ListOfSet(xs) == {s \in DistinctSeqs(Range(xs), Len(xs)) : Range(s) = Range(xs)}

EmptyDocument == [features |-> <<>>, styles |-> <<>>, visibility |-> NaN]

InitIdle ==
    /\ command = "none"
    /\ pc = "idle"
    /\ walker = "none"
    /\ category_graph = DiGraph
    /\ todo = <<>>
    /\ primary_category = <<>>
    /\ start = NaN
    /\ path_to_root = <<>>
    /\ steps = 0
    /\ root_categories = <<>>
    /\ records = <<>>
    /\ result = <<>>
    /\ error = NoError
    /\ categories_df = <<>>
    /\ places = <<>>
    /\ places_df = <<>>
    /\ row = 0
    /\ folders = <<>>
    /\ root_doc = EmptyDocument
    /\ placemarks = <<>>
    /\ folder_visibility = <<>>
    /\ stdout = <<>>
    /\ no_styles = FALSE
    /\ default_invisible = FALSE
    /\ hierarchical = FALSE
    /\ module = "none"
    /\ place_ids = <<>>
    /\ kml = <<>>
    /\ cursor = 0
    /\ num_added = 0
    /\ exceptions = <<>>
    /\ places_found = <<>>
    /\ calls = <<>>

InitResolve ==
    /\ categories \in CategoryTables(CatIdSeq(NumCats), MaxEdges, {NaN})
    /\ airtable = <<>>
    /\ InitIdle

\* ---- __init__.get_root_categories(category_graph, place) ----
GetRootCategories(refs) ==
    /\ UNCHANGED import_vars
    /\ pc = "idle"
    /\ command' = "get_root_categories"
    /\ walker' = "get_root_categories"
    /\ category_graph' = build_category_graph(categories)
    /\ primary_category' = refs
    /\ root_categories' = <<>>
    /\ steps' = 0
    /\ IF Len(refs) = 0
       THEN /\ result' = <<Uncategorized>>
            /\ pc' = "done"
            /\ UNCHANGED <<todo, start, path_to_root>>
       ELSE /\ todo' = Tail(refs)
            /\ start' = Head(refs)
            /\ path_to_root' = <<Head(refs)>>
            /\ pc' = "walk"
            /\ UNCHANGED result
    /\ UNCHANGED <<categories, records, error>>
    /\ UNCHANGED export_vars

HasSeveralParents(G, cur) == in_degree(G, cur) > 1
\* line 194, the test of the while loop
HasParent(G, cur) == in_degree(G, cur) > 0
\* line 195, its body
FirstPredecessor(G, cur) == predecessors(G, cur)[1]

RootCategoriesStep ==
    /\ UNCHANGED import_vars
    /\ pc = "walk" /\ walker = "get_root_categories"
    /\ LET G   == category_graph
           cur == Last(path_to_root)
       IN  IF cur \notin Nodes(G)
           THEN \* in_degree of an id that is no node is a view, and view > 0 raises
                /\ error' = "TypeError"
                /\ pc' = "raised"
                /\ UNCHANGED <<todo, start, path_to_root, steps, root_categories, result>>
           ELSE IF HasParent(G, cur)
           THEN /\ path_to_root' = <<FirstPredecessor(G, cur)>>
                /\ steps' = count(G, steps)
                /\ UNCHANGED <<todo, start, root_categories, result, pc, error>>
           ELSE /\ root_categories' = Append(root_categories, cur)
                /\ IF Len(todo) > 0
                   THEN /\ todo' = Tail(todo)
                        /\ start' = Head(todo)
                        /\ path_to_root' = <<Head(todo)>>
                        /\ steps' = 0
                        /\ UNCHANGED <<result, pc>>
                   ELSE /\ result' \in ListOfSet(root_categories')
                        /\ pc' = "done"
                        /\ UNCHANGED <<todo, start, path_to_root, steps>>
                /\ UNCHANGED error
    /\ UNCHANGED <<categories, command, walker, category_graph, primary_category, records>>
    /\ UNCHANGED export_vars

\* ---- utils.get_root_category_mapping(config) ----
\* lines 172-175: build the tree and enter the loop over its nodes
EnterRootCategoryMapping ==
    /\ UNCHANGED import_vars
    /\ walker' = "get_root_category_mapping"
    /\ category_graph' = get_category_tree(categories)
    /\ records' = <<>>
    /\ steps' = 0
    /\ LET nodes == category_graph'.order
       IN  /\ todo' = Tail(nodes)
           /\ start' = Head(nodes)
           /\ path_to_root' = <<Head(nodes)>>
    /\ pc' = "walk"
    /\ UNCHANGED <<categories, primary_category, root_categories, result, error>>

GetRootCategoryMapping ==
    /\ pc = "idle"
    /\ command' = "get_root_category_mapping"
    /\ EnterRootCategoryMapping
    /\ UNCHANGED export_vars

\* line 176, the test of the while loop
PathHasParent(G, path) == in_degree(G, Last(path)) > 0
\* line 177, its body: the path grows by every predecessor of its last node
PathExtension(G, path) == predecessors(G, Last(path))

MappingRecord(G, node, root_id) ==
    [category_id |-> node,
     category_name |-> G.data[node].name,
     category_root_id |-> root_id,
     category_root_name |-> G.data[root_id].name,
     google_style_icon_code |-> G.data[node].google_style_icon_code]

RootCategoryMappingStep ==
    /\ UNCHANGED import_vars
    /\ pc = "walk" /\ walker = "get_root_category_mapping"
    /\ LET G == category_graph
       IN  IF PathHasParent(G, path_to_root)
           THEN /\ path_to_root' = extend(G, path_to_root, PathExtension(G, path_to_root), steps)
                /\ steps' = count(G, steps)
                /\ UNCHANGED <<todo, start, records, result, pc, error>>
           ELSE LET root_id == Last(path_to_root)
                IN  IF ~G.data[root_id].has \/ ~G.data[start].has
                    THEN \* nodes[...]["name"] of a node that add_edge created
                         /\ error' = "KeyError"
                         /\ pc' = "raised"
                         /\ UNCHANGED <<todo, start, path_to_root, steps, records, result>>
                    ELSE /\ records' = Append(records, MappingRecord(G, start, root_id))
                         /\ IF Len(todo) > 0
                            THEN /\ todo' = Tail(todo)
                                 /\ start' = Head(todo)
                                 /\ path_to_root' = <<Head(todo)>>
                                 /\ steps' = 0
                                 /\ UNCHANGED <<result, pc>>
                            ELSE /\ result' = records'
                                 /\ pc' = "done"
                                 /\ UNCHANGED <<todo, start, path_to_root, steps>>
                         /\ UNCHANGED error
    /\ UNCHANGED <<categories, command, walker, category_graph, primary_category, root_categories>>
    /\ UNCHANGED export_vars

\* ---- cli.export_geojson, lines 228-241: the top-level category of every id ----
\* category_graph holds the categories dict: the ids in table order, and for
\* each its name and its first linked parent (as its only predecessor)
RECURSIVE geojson_categories_from(_, _, _)
geojson_categories_from(G, table, i) ==
    IF i > Len(table) THEN G
    ELSE LET c == table[i]
             n == c.id
             H == IF n \in Nodes(G) THEN G
                  ELSE [G EXCEPT !.order = Append(@, n)]
         IN  geojson_categories_from(
               [order |-> H.order,
                data  |-> [m \in Nodes(H) |->
                            IF m = n THEN [has |-> TRUE, name |-> c.name,
                                           google_style_icon_code |-> NaN]
                            ELSE G.data[m]],
                pred  |-> [m \in Nodes(H) |->
                            IF m = n THEN (IF Len(c.parent) > 0 THEN <<c.parent[1]>> ELSE <<>>)
                            ELSE G.pred[m]]],
               table, i + 1)

geojson_categories(table) == geojson_categories_from(DiGraph, table, 1)

ExportGeojsonCategories ==
    /\ UNCHANGED import_vars
    /\ pc = "idle"
    /\ command' = "export_geojson"
    /\ walker' = "export_geojson"
    /\ category_graph' = geojson_categories(categories)
    /\ records' = <<>>
    /\ steps' = 0
    /\ LET keys == category_graph'.order
       IN  /\ todo' = Tail(keys)
           /\ start' = Head(keys)
           /\ path_to_root' = <<Head(keys)>>
    /\ pc' = "walk"
    /\ UNCHANGED <<categories, primary_category, root_categories, result, error>>
    /\ UNCHANGED export_vars

\* line 239, the test of the while loop (categories[top_level] raises KeyError
\* when top_level is no key, which the step below decides first)
ParentIsNotNone(C, top_level) == Len(C.pred[top_level]) > 0
\* line 240, its body
ParentOf(C, top_level) == C.pred[top_level][1]

ExportGeojsonStep ==
    /\ UNCHANGED import_vars
    /\ pc = "walk" /\ walker = "export_geojson"
    /\ LET C == category_graph
           top_level == Last(path_to_root)
       IN  IF top_level \notin Nodes(C)
           THEN /\ error' = "KeyError"
                /\ pc' = "raised"
                /\ UNCHANGED <<todo, start, path_to_root, steps, records, result>>
           ELSE IF ParentIsNotNone(C, top_level)
           THEN /\ path_to_root' = <<ParentOf(C, top_level)>>
                /\ steps' = count(C, steps)
                /\ UNCHANGED <<todo, start, records, result, pc, error>>
           ELSE /\ records' = Append(records,
                                 [category_id |-> start, top_level_id |-> top_level,
                                  top_level |-> C.data[top_level].name])
                /\ IF Len(todo) > 0
                   THEN /\ todo' = Tail(todo)
                        /\ start' = Head(todo)
                        /\ path_to_root' = <<Head(todo)>>
                        /\ steps' = 0
                        /\ UNCHANGED <<result, pc>>
                   ELSE /\ result' = records'
                        /\ pc' = "done"
                        /\ UNCHANGED <<todo, start, path_to_root, steps>>
                /\ UNCHANGED error
    /\ UNCHANGED <<categories, command, walker, category_graph, primary_category, root_categories>>
    /\ UNCHANGED export_vars

next_resolve ==
    \/ \E refs \in OrderedSeqs(TableIdSeq(categories), MaxRefs) : GetRootCategories(refs)
    \/ RootCategoriesStep
    \/ GetRootCategoryMapping
    \/ RootCategoryMappingStep
    \/ ExportGeojsonCategories
    \/ ExportGeojsonStep

SpecResolve == InitResolve /\ [][next_resolve]_vars

(***************************************************************************)
(* Spec: one run of write-kml (cli.write_kml), besides the walks above     *)
(***************************************************************************)
IconCodes == {"1577"}
Flags == {"is_visited", "is_queued", "is_favorite", "is_lame", "is_perm_closed"}
PlaceIds == <<"p1">>

\* the places table: one record per place id; primary_category is the list of
\* linked category ids, flags the checkbox columns that are ticked
PlaceTables(idseq) ==
    {[i \in DOMAIN PlaceIds |->
        [id |-> PlaceIds[i], primary_category |-> pcs[i], flags |-> fl[i]]] :
       pcs \in [DOMAIN PlaceIds -> OrderedSeqs(idseq, MaxRefs)],
       fl \in [DOMAIN PlaceIds -> SUBSET Flags]}

Init ==
    /\ categories \in CategoryTables(CatIdSeq(NumExportCats), MaxEdges, IconCodes \cup {NaN})
    /\ airtable = <<>>
    /\ InitIdle

\* ---- __init__.get_placemark_style(flags, google_style_icon_code) ----
get_placemark_style(flags, google_style_icon_code) ==
    LET color == IF "Favorite" \in flags THEN "F9A825"
                 ELSE IF "Queued" \in flags THEN "558B2F"
                 ELSE IF "Visited" \in flags THEN "0288D1"
                 ELSE "757575"
    IN  "#icon-" \o google_style_icon_code \o "-" \o color \o "-nodesc"

\* ---- utils.get_places ----
\* explode("primary_category"): one row per linked category, one row with NaN
\* for a place that links none
RECURSIVE explode_primary_category(_, _)
explode_primary_category(table, i) ==
    IF i > Len(table) THEN <<>>
    ELSE LET p == table[i]
             rows == IF Len(p.primary_category) = 0
                     THEN <<[id |-> p.id, flags |-> p.flags, primary_category |-> NaN]>>
                     ELSE [k \in 1..Len(p.primary_category) |->
                            [id |-> p.id, flags |-> p.flags,
                             primary_category |-> p.primary_category[k]]]
         IN  rows \o explode_primary_category(table, i + 1)

\* the columns a row of places_df takes from the categories_df row it matched
MergedRow(left, right) ==
    [id |-> left.id, flags |-> left.flags, primary_category |-> left.primary_category,
     category_id |-> right.category_id,
     category_root_id |-> right.category_root_id,
     category_root_name |-> right.category_root_name,
     google_style_icon_code |-> right.google_style_icon_code]

NaNRecord == [category_id |-> NaN, category_name |-> NaN, category_root_id |-> NaN,
              category_root_name |-> NaN, google_style_icon_code |-> NaN]

\* merge(how="left", left_on="primary_category", right_on="category_id")
RECURSIVE merge_left(_, _, _)
merge_left(left, right, i) ==
    IF i > Len(left) THEN <<>>
    ELSE LET l == left[i]
             Matches(r) == r.category_id = l.primary_category
             hits == SelectSeq(right, Matches)
             rows == IF Len(hits) = 0 THEN <<MergedRow(l, NaNRecord)>>
                     ELSE [k \in 1..Len(hits) |-> MergedRow(l, hits[k])]
         IN  rows \o merge_left(left, right, i + 1)

get_places(cdf, table) == merge_left(explode_primary_category(table, 1), cdf, 1)

\* ---- cli.write_kml(ctx, no_styles, default_invisible, hierarchical) ----
\* line 91: the command starts by computing the root category mapping
WriteKml(ns, invisible, hier) ==
    /\ pc = "idle"
    /\ command' = "write_kml"
    /\ no_styles' = ns
    /\ default_invisible' = invisible
    /\ hierarchical' = hier
    /\ EnterRootCategoryMapping
    /\ UNCHANGED <<categories_df, places, places_df, row, folders, root_doc,
                   placemarks, folder_visibility, stdout>>

\* pandas unique(): the values in order of first appearance
RECURSIVE unique(_)
unique(xs) ==
    IF Len(xs) = 0 THEN <<>>
    ELSE LET front == unique(SubSeq(xs, 1, Len(xs) - 1))
         IN  IF Last(xs) \in Range(front) THEN front ELSE Append(front, Last(xs))

\* lines 104-111: the keys of the folders dict, in insertion order; the folders
\* are appended to root_doc in the same order
write_kml_folders(cdf) ==
    <<"uncategorized">> \o unique([i \in DOMAIN cdf |-> cdf[i].category_root_name])

\* lines 91-111: categories_df is what the mapping returned; get_places reads
\* the places table and computes the mapping again from the same store; then
\* the document and one folder per root category name are constructed. Nothing
\* reads the category table, the tree or the walk's locals after line 92, and
\* the model drops them here.
GetPlaces ==
    /\ UNCHANGED import_vars
    /\ command = "write_kml" /\ pc = "done"
    /\ categories_df' = result
    /\ \E table \in PlaceTables(TableIdSeq(categories)) :
         /\ places' = table
         /\ places_df' = get_places(result, table)
    /\ folders' = write_kml_folders(result)
    /\ root_doc' = [features |-> folders', styles |-> <<>>, visibility |-> NaN]
    /\ placemarks' = [f \in Range(folders') |-> <<>>]
    /\ folder_visibility' = [f \in Range(folders') |-> NaN]
    /\ row' = 1
    /\ pc' = "places"
    /\ walker' = "none"
    /\ categories' = <<>>
    /\ category_graph' = DiGraph
    /\ start' = NaN
    /\ path_to_root' = <<>>
    /\ records' = <<>>
    /\ result' = <<>>
    /\ UNCHANGED <<command, todo, primary_category, steps, root_categories, error>>
    /\ UNCHANGED <<no_styles, default_invisible, hierarchical, stdout>>

is_perm_closed_only(tup) == "is_perm_closed" \in tup.flags
\* line 115
is_excluded(tup) == "is_perm_closed" \in tup.flags \/ "is_lame" \in tup.flags

folder_without_default(tup) == tup.category_root_name
\* lines 117-121
folder_of(tup) ==
    IF tup.category_root_name = NaN THEN "uncategorized" ELSE tup.category_root_name

icon_color_visited_first(tup) ==
    IF "is_visited" \in tup.flags THEN "0288D1"
    ELSE IF "is_favorite" \in tup.flags THEN "F9A825"
    ELSE IF "is_queued" \in tup.flags THEN "558B2F"
    ELSE "757575"
\* lines 125-132
icon_color(tup) ==
    IF "is_favorite" \in tup.flags THEN "F9A825"
    ELSE IF "is_queued" \in tup.flags THEN "558B2F"
    ELSE IF "is_visited" \in tup.flags THEN "0288D1"
    ELSE "757575"

fallback_without_icon_only(ns, tup) == tup.google_style_icon_code = NaN
\* line 122, the test for the fallback style
uses_fallback_style(ns, tup) == ns \/ tup.google_style_icon_code = NaN

\* lines 122-133
style_url(ns, tup) ==
    IF uses_fallback_style(ns, tup) THEN "#icon-1899-757575-nodesc"
    ELSE "#icon-" \o tup.google_style_icon_code \o "-" \o icon_color(tup) \o "-nodesc"

\* lines 114-136, one iteration of the loop over places_df
AddPlacemark ==
    /\ UNCHANGED import_vars
    /\ pc = "places" /\ row <= Len(places_df)
    /\ LET tup == places_df[row]
       IN  IF is_excluded(tup)
           THEN UNCHANGED placemarks
           ELSE placemarks' =
                  [placemarks EXCEPT ![folder_of(tup)] =
                     Append(@, [id |-> tup.id, styleUrl |-> style_url(no_styles, tup)])]
    /\ row' = row + 1
    /\ UNCHANGED resolve_vars
    /\ UNCHANGED <<no_styles, default_invisible, hierarchical, categories_df, places,
                   places_df, folders, root_doc, folder_visibility, stdout>>

always_visible(invisible) == 1
\* line 139
visibility_of(invisible) == IF invisible THEN 0 ELSE 1

\* lines 138-142. The loop is over: nothing reads places_df after it, and the
\* model drops the table and the frame here.
SetVisibility ==
    /\ UNCHANGED import_vars
    /\ pc = "places" /\ row > Len(places_df)
    /\ folder_visibility' = [f \in Range(folders) |-> visibility_of(default_invisible)]
    /\ root_doc' = [root_doc EXCEPT !.visibility = 1]
    /\ places' = <<>>
    /\ places_df' = <<>>
    /\ row' = 0
    /\ pc' = "styles"
    /\ UNCHANGED resolve_vars_but_pc
    /\ UNCHANGED <<no_styles, default_invisible, hierarchical, categories_df,
                   folders, placemarks, stdout>>

\* lines 158-172: four styles for every categories_df row with an icon code
IconColors == <<"0288D1", "F9A825", "558B2F", "757575">>

no_category_styles(cdf, i) == <<>>
RECURSIVE category_styles(_, _)
category_styles(cdf, i) ==
    IF i > Len(cdf) THEN <<>>
    ELSE LET code == cdf[i].google_style_icon_code
             four == IF code = NaN THEN <<>>
                     ELSE [k \in DOMAIN IconColors |->
                             "icon-" \o code \o "-" \o IconColors[k] \o "-nodesc"]
         IN  four \o category_styles(cdf, i + 1)

styles_despite_no_styles(ns, cdf) ==
    <<"icon-1899-757575-nodesc">> \o category_styles(cdf, 1)
document_styles(ns, cdf) ==
    <<"icon-1899-757575-nodesc">> \o (IF ns THEN <<>> ELSE category_styles(cdf, 1))

\* lines 144-172
AppendStyles ==
    /\ UNCHANGED import_vars
    /\ pc = "styles"
    /\ root_doc' = [root_doc EXCEPT !.styles = @ \o document_styles(no_styles, categories_df)]
    /\ pc' = "print"
    /\ UNCHANGED resolve_vars_but_pc
    /\ UNCHANGED <<no_styles, default_invisible, hierarchical, categories_df, places,
                   places_df, row, folders, placemarks, folder_visibility, stdout>>

\* line 174
PrintKml ==
    /\ UNCHANGED import_vars
    /\ pc = "print"
    /\ stdout' = <<[document |-> root_doc, placemarks |-> placemarks,
                    folder_visibility |-> folder_visibility]>>
    /\ pc' = "printed"
    /\ UNCHANGED resolve_vars_but_pc
    /\ UNCHANGED <<no_styles, default_invisible, hierarchical, categories_df, places,
                   places_df, row, folders, root_doc, placemarks, folder_visibility>>

Next ==
    \/ next_resolve
    \/ \E ns, invisible, hier \in BOOLEAN : WriteKml(ns, invisible, hier)
    \/ GetPlaces
    \/ AddPlacemark
    \/ SetVisibility
    \/ AppendStyles
    \/ PrintKml

Spec == Init /\ [][Next]_vars

(***************************************************************************)
(* SpecImport: add_place_ids and add-kml                                   *)
(*   "myspots.py"  the script: add_place_ids (63-88), add_kml (168-206)    *)
(*   "myspots"     the package: utils.add_place_ids (111-132),             *)
(*                 cli.add_kml (177-217)                                   *)
(* The store answers a search with the records inserted so far.            *)
(***************************************************************************)
Modules == {"myspots.py", "myspots"}
GoogleIdPool == <<"g1", "g2", "g3", "g4">>
GooglePlaceIds == Range(SubSeq(GoogleIdPool, 1, NumPlaceIds))
PlacemarkPool == <<"m1", "m2", "m3", "m4">>
\* query_places returns None when the places API call failed, a list otherwise
None == <<"None">>

\* the record of a place the store held before the run
StoredRecord(id) == [google_place_id |-> id, google_json_data |-> "stored"]
\* the record add_place_ids builds from the detailed place data
NewRecord(id) == [google_place_id |-> id, google_json_data |-> "json.dumps(place_data)"]

InitialStores ==
    {LET In(g) == g \in S
         held == SelectSeq(SubSeq(GoogleIdPool, 1, NumPlaceIds), In)
     IN  [i \in DOMAIN held |-> StoredRecord(held[i])] : S \in SUBSET GooglePlaceIds}

IdLists(k) == UNION {[1..n -> GooglePlaceIds] : n \in 0..k}

InitImport ==
    /\ categories = <<>>
    /\ airtable \in InitialStores
    /\ InitIdle

place_never_exists(store, google_place_id) == FALSE
\* place_exists: the search for the id returns at least one record
place_exists(store, google_place_id) ==
    \E i \in DOMAIN store : store[i].google_place_id = google_place_id

\* one iteration of add_place_ids' loop for place_id: status is the status of
\* the place details response, created tells whether the store accepted the
\* record (the script checks the create response; utils.add_place_ids inserts
\* without a check). TRUE when the iteration inserts and counts.
adds(store, m, place_id, status, created) ==
    /\ ~place_exists(store, place_id)
    /\ status = "OK"
    /\ (m = "myspots.py" => created)

\* the call record of an add_place_ids call that starts on store
OpenCall(ids, store) ==
    [place_ids |-> ids, before |-> store, after |-> store, returned |-> 0, done |-> FALSE]

\* what add_place_ids and add_kml never touch
walk_locals == <<categories, walker, category_graph, todo, primary_category, start,
                 path_to_root, steps, root_categories, records, result>>
import_unchanged == UNCHANGED <<walk_locals, export_vars>>

\* ---- add_place_ids(google_maps_client, airtable, place_ids) ----
\* a first call, or the same call made again after the previous one returned
AddPlaceIds(m, ids) ==
    /\ \/ pc = "idle"
       \/ /\ command = "add_place_ids" /\ pc = "done"
          /\ Len(calls) < MaxCalls
          /\ m = module /\ ids = place_ids
    /\ command' = "add_place_ids"
    /\ module' = m
    /\ place_ids' = ids
    /\ num_added' = 0
    /\ cursor' = 1
    /\ calls' = Append(calls, OpenCall(ids, airtable))
    /\ pc' = "loop"
    /\ UNCHANGED <<airtable, kml, exceptions, places_found, error>>
    /\ import_unchanged

AddPlaceIdsStep ==
    /\ command = "add_place_ids" /\ pc = "loop" /\ cursor <= Len(place_ids)
    /\ \E status \in {"OK", "NOT_OK"}, created \in BOOLEAN :
         LET place_id == place_ids[cursor]
         IN  IF adds(airtable, module, place_id, status, created)
             THEN /\ airtable' = Append(airtable, NewRecord(place_id))
                  /\ num_added' = num_added + 1
             ELSE UNCHANGED <<airtable, num_added>>
    /\ cursor' = cursor + 1
    /\ calls' = [calls EXCEPT ![Len(calls)].after = airtable',
                              ![Len(calls)].returned = num_added']
    /\ UNCHANGED <<pc, command, error, module, place_ids, kml, exceptions, places_found>>
    /\ import_unchanged

AddPlaceIdsReturn ==
    /\ command = "add_place_ids" /\ pc = "loop" /\ cursor > Len(place_ids)
    /\ calls' = [calls EXCEPT ![Len(calls)].done = TRUE]
    /\ pc' = "done"
    /\ UNCHANGED <<command, error, airtable, module, place_ids, kml, cursor, num_added,
                   exceptions, places_found>>
    /\ import_unchanged

\* ---- add_kml(ctx, kml_path, skip) ----
QueryResults == {None} \cup UNION {[1..n -> GooglePlaceIds] : n \in 0..MaxCandidates}

AddKml(m, n, skip) ==
    /\ pc = "idle"
    /\ command' = "add_kml"
    /\ module' = m
    /\ kml' = SubSeq(PlacemarkPool, skip + 1, n)
    /\ num_added' = 0
    /\ exceptions' = <<>>
    /\ cursor' = 1
    /\ pc' = "loop"
    /\ UNCHANGED <<airtable, place_ids, places_found, calls, error>>
    /\ import_unchanged

\* one iteration of the loop over placemarks[skip:]
AddKmlStep ==
    /\ command = "add_kml" /\ pc = "loop" /\ cursor <= Len(kml)
    /\ IF module = "myspots"
       THEN \* cli.py:193, ctx.obj["gmclient"]: the group callback (cli.py:31-33)
            \* only stores "config" in ctx.obj
            /\ error' = "KeyError"
            /\ pc' = "finally"
            /\ UNCHANGED <<airtable, cursor, num_added, exceptions, places_found, calls>>
       ELSE \E found \in QueryResults :
              /\ places_found' = found
              /\ IF found = None
                 THEN /\ error' = "ValueError"
                      /\ pc' = "finally"
                      /\ UNCHANGED <<airtable, cursor, num_added, exceptions, calls>>
                 ELSE IF Len(found) # 1
                 THEN /\ exceptions' = Append(exceptions, kml[cursor])
                      /\ cursor' = cursor + 1
                      /\ UNCHANGED <<airtable, num_added, calls, pc, error>>
                 ELSE \E status \in {"OK", "NOT_OK"}, created \in BOOLEAN :
                        LET place_id == found[1]
                            added == adds(airtable, module, place_id, status, created)
                        IN  /\ airtable' = IF added THEN Append(airtable, NewRecord(place_id))
                                           ELSE airtable
                            /\ num_added' = num_added + (IF added THEN 1 ELSE 0)
                            /\ calls' = Append(calls,
                                 [place_ids |-> <<place_id>>, before |-> airtable,
                                  after |-> airtable', returned |-> IF added THEN 1 ELSE 0,
                                  done |-> TRUE])
                            /\ cursor' = cursor + 1
                            /\ UNCHANGED <<exceptions, pc, error>>
    /\ UNCHANGED <<command, module, place_ids, kml>>
    /\ import_unchanged

\* the finally clause: it runs when the loop is over and when an iteration
\* raised; its last statement is a bare raise, which re-raises the exception
\* in flight and, when there is none, raises RuntimeError
AddKmlFinally ==
    /\ command = "add_kml"
    /\ \/ pc = "finally"
       \/ pc = "loop" /\ cursor > Len(kml)
    /\ stdout' = stdout \o <<"EXCEPTIONS">> \o exceptions
    /\ error' = IF error = NoError THEN "RuntimeError" ELSE error
    /\ pc' = "raised"
    /\ UNCHANGED import_vars
    /\ UNCHANGED <<command, walk_locals>>
    /\ UNCHANGED <<no_styles, default_invisible, hierarchical, categories_df, places,
                   places_df, row, folders, root_doc, placemarks, folder_visibility>>

next_import ==
    \/ \E m \in Modules, ids \in IdLists(MaxIds) : AddPlaceIds(m, ids)
    \/ AddPlaceIdsStep
    \/ AddPlaceIdsReturn
    \/ \E m \in Modules, n \in 0..MaxPlacemarks, skip \in 0..1 : AddKml(m, n, skip)
    \/ AddKmlStep
    \/ AddKmlFinally

SpecImport == InitImport /\ [][next_import]_vars

(***************************************************************************)
(* Properties                                                              *)
(***************************************************************************)
RECURSIVE AncestorsWithin(_, _, _)
AncestorsWithin(G, S, k) ==
    IF k = 0 THEN S
    ELSE AncestorsWithin(G, S \cup UNION {Range(G.pred[n]) : n \in S \cap Nodes(G)}, k - 1)

AncestorsOrSelf(G, n) == AncestorsWithin(G, {n}, Len(G.order))
StrictAncestors(G, n) == AncestorsWithin(G, Range(G.pred[n]), Len(G.order))
OnCycle(G, n) == n \in Nodes(G) /\ n \in StrictAncestors(G, n)
Acyclic(G) == \A n \in Nodes(G) : ~OnCycle(G, n)
IsRootOf(G, r, n) == r \in Nodes(G) /\ in_degree(G, r) = 0 /\ r \in AncestorsOrSelf(G, n)
RootsOf(G, n) == {r \in Nodes(G) : IsRootOf(G, r, n)}

\* C1: on an acyclic category graph every root walk of get_root_categories
\* and get_root_category_mapping ends: it makes fewer moves than the graph has
\* nodes and a walk under way always has its next step; and every node a walk
\* ended on has no parent and is an ancestor-or-self of the node it started
\* from.
C1_RootWalkEndsOnRoot ==
    (/\ command \in {"get_root_categories", "get_root_category_mapping"}
     /\ Acyclic(category_graph))
    => /\ steps < Len(category_graph.order)
       /\ pc = "walk" => ENABLED (RootCategoriesStep \/ RootCategoryMappingStep)
       /\ \A i \in DOMAIN root_categories :
            IsRootOf(category_graph, root_categories[i], primary_category[i])
       /\ \A i \in DOMAIN records :
            IsRootOf(category_graph, records[i].category_root_id, records[i].category_id)
       /\ (pc = "raised" /\ error = "KeyError")
            => IsRootOf(category_graph, Last(path_to_root), start)

\* with A a root, B a child of A and C a child of B, the walk from C has ended on A
C1_Witness ==
    /\ command = "get_root_categories" /\ pc = "done"
    /\ categories[1].parent = <<>>
    /\ categories[2].parent = <<"A">>
    /\ categories[3].parent = <<"B">>
    /\ primary_category = <<"C">>
    /\ steps = 2
    /\ result = <<"A">>

\* C2: resolving the root of a category that lies on a parent cycle stops
\* within node-count iterations of the walk, with the error CycleDetected
\* (stated for cycles through at least one other category, so that a category
\* that is merely its own parent is not what refutes it).
C2_CycleDetectedWithinNodeCount ==
    (/\ command \in {"get_root_categories", "export_geojson"}
     /\ pc \in {"walk", "raised"}
     /\ OnCycle(category_graph, start)
     /\ start \notin Range(category_graph.pred[start]))
    => /\ steps <= Len(category_graph.order)
       /\ pc = "raised" => error = "CycleDetected"

\* C5: the list get_root_categories returns for a place with categories holds
\* each root of the referenced categories exactly once.
C5_ResolveRootsDeduplicates ==
    (command = "get_root_categories" /\ pc = "done" /\ Len(primary_category) > 0)
    => LET roots == UNION {RootsOf(category_graph, c) : c \in Range(primary_category)}
       IN  /\ Range(result) = roots
           /\ Len(result) = Cardinality(roots)
           /\ \A i, j \in DOMAIN result : i # j => result[i] # result[j]

\* two referenced categories that share their root contribute one element
C5_Witness ==
    /\ command = "get_root_categories" /\ pc = "done"
    /\ categories[2].parent = <<"A">>
    /\ primary_category = <<"A", "B">>
    /\ result = <<"A">>

\* ---- write-kml ----
InLoop == command = "write_kml" /\ pc = "places"
LoopDone == InLoop /\ row > Len(places_df)
FallbackStyleUrl == "#icon-1899-757575-nodesc"
\* the number of placemarks of place id in folder f
MarkersIn(f, id) == Cardinality({k \in DOMAIN placemarks[f] : placemarks[f][k].id = id})
Excluded(place) == "is_perm_closed" \in place.flags \/ "is_lame" \in place.flags
CategoryIds == {categories_df[i].category_id : i \in DOMAIN categories_df}
RootNameOf(c) == (CHOOSE r \in Range(categories_df) : r.category_id = c).category_root_name
\* the row the loop has just processed, and the placemark it appended
LastTup == places_df[row - 1]
LastPlacemark == Last(placemarks[folder_of(LastTup)])
Appended == InLoop /\ row > 1 /\ ~Excluded(LastTup)

\* C3: when the loop over the places is over, a place that is not excluded
\* and references known categories has exactly one placemark in the folder of
\* every distinct root of its categories, and none in any other folder.
C3_OneMarkerPerDistinctRoot ==
    LoopDone =>
      \A i \in DOMAIN places :
        LET place == places[i]
            roots == {RootNameOf(c) : c \in Range(place.primary_category)}
        IN  (/\ ~Excluded(place)
             /\ place.primary_category # <<>>
             /\ Range(place.primary_category) \subseteq CategoryIds)
            => \A f \in Range(folders) :
                 MarkersIn(f, place.id) = IF f \in roots THEN 1 ELSE 0

\* C4: get_root_categories returns exactly ["Uncategorized"] for a place
\* without categories; and write-kml gives such a place one row, files it in
\* the folder "uncategorized" (once, unless the place is excluded) and in no
\* other folder.
C4_NoCategoryIsUncategorized ==
    /\ (command = "get_root_categories" /\ pc = "done" /\ primary_category = <<>>)
         => result = <<Uncategorized>>
    /\ InLoop =>
         \A i \in DOMAIN places :
           places[i].primary_category = <<>> =>
             /\ Cardinality({r \in DOMAIN places_df : places_df[r].id = places[i].id}) = 1
             /\ \A f \in Range(folders) \ {"uncategorized"} : MarkersIn(f, places[i].id) = 0
             /\ (LoopDone /\ ~Excluded(places[i]))
                  => MarkersIn("uncategorized", places[i].id) = 1

C4_Witness ==
    /\ LoopDone
    /\ places[1].primary_category = <<>>
    /\ Len(folders) > 1
    /\ MarkersIn("uncategorized", places[1].id) = 1

\* C6: a place flagged Permanently Closed or Lame has no placemark in any
\* folder, whatever its categories and its other flags.
C6_ExcludedPlaceHasNoMarker ==
    InLoop =>
      \A i \in DOMAIN places :
        Excluded(places[i]) => \A f \in Range(folders) : MarkersIn(f, places[i].id) = 0

C6_Witness ==
    /\ LoopDone
    /\ Len(places[1].primary_category) = 2
    /\ places[1].flags = {"is_lame", "is_favorite"}
    /\ \A f \in Range(folders) : placemarks[f] = <<>>

\* C7: with styles enabled and an icon code present, the placemark's style is
\* "#icon-<code>-<colour>-nodesc" with the colour of the first of Favorite
\* (F9A825), Queued (558B2F), Visited (0288D1) that is set, else 757575; and
\* get_placemark_style gives the same for the same flags and icon code.
ColourByPriority(favorite, queued, visited) ==
    IF favorite THEN "F9A825" ELSE IF queued THEN "558B2F"
    ELSE IF visited THEN "0288D1" ELSE "757575"
NotionFlags(flags) ==
    {n \in {"Favorite", "Queued", "Visited"} :
       \/ n = "Favorite" /\ "is_favorite" \in flags
       \/ n = "Queued" /\ "is_queued" \in flags
       \/ n = "Visited" /\ "is_visited" \in flags}

C7_StyleColourByPriority ==
    (Appended /\ ~no_styles /\ LastTup.google_style_icon_code # NaN) =>
      LET flags == LastTup.flags
          expected == "#icon-" \o LastTup.google_style_icon_code \o "-"
                        \o ColourByPriority("is_favorite" \in flags, "is_queued" \in flags,
                                            "is_visited" \in flags)
                        \o "-nodesc"
      IN  /\ LastPlacemark.styleUrl = expected
          /\ get_placemark_style(NotionFlags(flags), LastTup.google_style_icon_code) = expected

C7_Witness ==
    /\ Appended /\ ~no_styles
    /\ LastTup.flags = {"is_favorite", "is_visited"}
    /\ LastPlacemark.styleUrl = "#icon-1577-F9A825-nodesc"

\* C8: with --no-styles every placemark of the document carries the fallback
\* style; and with styles enabled a placemark whose category has no icon code
\* carries it too.
C8_FallbackStyle ==
    /\ (command = "write_kml" /\ no_styles) =>
         \A f \in DOMAIN placemarks : \A k \in DOMAIN placemarks[f] :
           placemarks[f][k].styleUrl = FallbackStyleUrl
    /\ (Appended /\ LastTup.google_style_icon_code = NaN) =>
         LastPlacemark.styleUrl = FallbackStyleUrl

C8_Witness ==
    /\ Appended /\ no_styles
    /\ LastTup.google_style_icon_code = "1577"
    /\ "is_favorite" \in LastTup.flags
    /\ LastPlacemark.styleUrl = FallbackStyleUrl

\* C9: once the visibility is set, and in what is printed, the document is
\* visible and every folder, "uncategorized" included, has visibility 0 with
\* --default-invisible and 1 without.
C9_Visibility ==
    (command = "write_kml" /\ pc \in {"styles", "print", "printed"}) =>
      /\ root_doc.visibility = 1
      /\ "uncategorized" \in Range(folders)
      /\ DOMAIN folder_visibility = Range(folders)
      /\ \A f \in Range(folders) :
           folder_visibility[f] = IF default_invisible THEN 0 ELSE 1
      /\ pc = "printed" =>
           /\ stdout[1].document.visibility = 1
           /\ stdout[1].folder_visibility = folder_visibility

C9_Witness ==
    /\ command = "write_kml" /\ pc = "printed"
    /\ default_invisible
    /\ Len(folders) = 3
    /\ \A f \in Range(folders) : stdout[1].folder_visibility[f] = 0

\* C10: when a place references an id that is no category, the run fails
\* with UnknownCategory: it never comes to construct placemarks.
C10_UnknownCategoryAborts ==
    (/\ command = "write_kml"
     /\ \E i \in DOMAIN places : ~(Range(places[i].primary_category) \subseteq CategoryIds))
    => pc = "raised" /\ error = "UnknownCategory"

(***************************************************************************)
(* The graph builders                                                      *)
(***************************************************************************)
\* a graph has been built from the table that is still in the state
GraphBuilt ==
    /\ command \in {"get_root_categories", "get_root_category_mapping"}
    /\ pc # "idle"

\* the parent ids the table declares that no record of the table carries
OrphanReferences ==
    UNION {Range(categories[i].parent) : i \in DOMAIN categories}
      \ Range(TableIdSeq(categories))

\* C11: when a category record declares a parent that is no loaded category,
\* building the graph fails the run with OrphanParentReference; the missing
\* parent is never a node of the graph, and never the root a category is
\* resolved to.
C11_OrphanParentFailsTheRun ==
    (GraphBuilt /\ OrphanReferences # {})
    => /\ pc = "raised" /\ error = "OrphanParentReference"
       /\ Nodes(category_graph) \cap OrphanReferences = {}
       /\ Range(root_categories) \cap OrphanReferences = {}

\* C12: in every graph a builder returns, a node has at most one predecessor,
\* a node has a predecessor exactly when its record links a parent, and every
\* predecessor is a parent its record links.
C12_AtMostOneParentPerNode ==
    GraphBuilt =>
      \A i \in DOMAIN categories :
        LET c == categories[i]
            preds == category_graph.pred[c.id]
        IN  /\ c.id \in Nodes(category_graph)
            /\ Len(preds) <= 1
            /\ (Len(preds) > 0) <=> (Len(c.parent) > 0)
            /\ Range(preds) \subseteq Range(c.parent)

(***************************************************************************)
(* The finished document                                                   *)
(***************************************************************************)
Finalized == command = "write_kml" /\ pc \in {"print", "printed"}
FallbackStyle == "icon-1899-757575-nodesc"
Colours == {"0288D1", "F9A825", "558B2F", "757575"}
StyleId(code, colour) == "icon-" \o code \o "-" \o colour \o "-nodesc"
Occurrences(seq, x) == Cardinality({i \in DOMAIN seq : seq[i] = x})
\* the category nodes that carry an icon code
IconNodes == {i \in DOMAIN categories_df : categories_df[i].google_style_icon_code # NaN}
NodesWithCode(code) ==
    {i \in IconNodes : categories_df[i].google_style_icon_code = code}

BeforeFirstPlace == command = "write_kml" /\ pc = "places" /\ row = 1
\* the rows of places_df the loop has processed so far
Processed == IF InLoop THEN 1..(row - 1) ELSE {}
\* the folders that some processed row has been filed in, in first-seen order
SeenFolders ==
    unique(SelectSeq([i \in Processed |->
                        IF Excluded(places_df[i]) THEN NaN
                        ELSE IF places_df[i].category_root_name = NaN THEN "uncategorized"
                        ELSE places_df[i].category_root_name],
                     LAMBDA f : f \notin {NaN, "uncategorized"}))

\* C14: the folder "uncategorized" exists before any place is processed and
\* is the only one then; any other folder exists only once a processed place
\* resolved to it, the folders standing in first-seen order; when the loop is
\* over every folder but "uncategorized" holds a marker, and no folder name
\* occurs twice.
C14_FoldersCreatedLazily ==
    /\ BeforeFirstPlace => folders = <<"uncategorized">>
    /\ InLoop => /\ folders = <<"uncategorized">> \o SeenFolders
                 /\ root_doc.features = folders
    /\ LoopDone => \A f \in Range(folders) \ {"uncategorized"} : Len(placemarks[f]) >= 1
    /\ \A i, j \in DOMAIN folders : folders[i] = folders[j] => i = j

\* the parent/child pairs of category names in the mapping write_kml computed
ChildCategories ==
    {i \in DOMAIN categories_df :
       categories_df[i].category_id # categories_df[i].category_root_id}

\* C15: with --hierarchical every category that has a parent has a folder of
\* its own that is not a direct child of the root container (it sits inside
\* its parent's folder); without the option every folder is a direct child of
\* the root container.
C15_HierarchicalNestsFolders ==
    (command = "write_kml" /\ pc \in {"places", "styles", "print", "printed"}) =>
      /\ hierarchical =>
           \A i \in ChildCategories :
             /\ categories_df[i].category_name \in Range(folders)
             /\ categories_df[i].category_name \notin Range(root_doc.features)
      /\ ~hierarchical => Range(folders) = Range(root_doc.features)

\* the placemarks of the printed document, over all its folders
PrintedPlacemarks ==
    UNION {Range(stdout[1].placemarks[f]) : f \in Range(stdout[1].document.features)}

\* C17: in the document write-kml prints, the style every placemark refers to
\* is defined in the root container of that document.
C17_NoDanglingStyleReference ==
    (command = "write_kml" /\ pc = "printed") =>
      \A p \in PrintedPlacemarks :
        \E k \in DOMAIN stdout[1].document.styles :
          p.styleUrl = "#" \o stdout[1].document.styles[k]

\* a document with a placemark that refers to a category style
C17_Witness ==
    /\ command = "write_kml" /\ pc = "printed"
    /\ \E p \in PrintedPlacemarks : p.styleUrl = "#icon-1577-F9A825-nodesc"

(***************************************************************************)
(* The three root walks as functions of the category table                 *)
(* (fuel bounds the recursion; a walk that uses it up is on a cycle)       *)
(***************************************************************************)
Diverges == "diverges"

\* __init__.get_root_categories, lines 193-196, for one category_ref
RECURSIVE root_category_id(_, _, _)
root_category_id(G, cur, fuel) ==
    IF cur \notin Nodes(G) THEN "TypeError"
    ELSE IF ~HasParent(G, cur) THEN cur
    ELSE IF fuel = 0 THEN Diverges
    ELSE root_category_id(G, FirstPredecessor(G, cur), fuel - 1)

\* utils.get_root_category_mapping, lines 175-179, for one node
RECURSIVE root_id(_, _, _)
root_id(G, path, fuel) ==
    IF ~PathHasParent(G, path)
    THEN IF G.data[Last(path)].has /\ G.data[path[1]].has THEN Last(path) ELSE "KeyError"
    ELSE IF fuel = 0 THEN Diverges
    ELSE root_id(G, path \o PathExtension(G, path), fuel - 1)

\* cli.export_geojson, lines 238-241, for one id
RECURSIVE top_level(_, _, _)
top_level(C, cur, fuel) ==
    IF cur \notin Nodes(C) THEN "KeyError"
    ELSE IF ~ParentIsNotNone(C, cur) THEN cur
    ELSE IF fuel = 0 THEN Diverges
    ELSE top_level(C, ParentOf(C, cur), fuel - 1)

Fuel == Len(categories) + 1
RootByGraph(c) == root_category_id(build_category_graph(categories), c, Fuel)
RootByMapping(c) == root_id(get_category_tree(categories), <<c>>, Fuel)
RootByGeojson(c) == top_level(geojson_categories(categories), c, Fuel)

SingleParent == \A i \in DOMAIN categories : Len(categories[i].parent) <= 1
AcyclicTable == Acyclic(build_category_graph(categories))
ResolveRunning == command \in Walkers /\ pc # "idle"

\* the categories the running walk has resolved, each with the root it found
Resolved ==
    IF walker = "get_root_categories"
    THEN {<<primary_category[i], root_categories[i]>> : i \in DOMAIN root_categories}
    ELSE IF walker = "get_root_category_mapping"
    THEN {<<records[i].category_id, records[i].category_root_id>> : i \in DOMAIN records}
    ELSE {<<records[i].category_id, records[i].top_level_id>> : i \in DOMAIN records}

\* C18: on an acyclic table in which every category links at most one parent,
\* whatever root one of the three walks finds for a category is the root the
\* two other walks end on for that category.
C18_RootWalksAgree ==
    (ResolveRunning /\ SingleParent /\ AcyclicTable) =>
      \A cr \in Resolved :
        /\ cr[1] \in Range(TableIdSeq(categories)) =>
             /\ RootByGraph(cr[1]) = cr[2]
             /\ RootByMapping(cr[1]) = cr[2]
             /\ RootByGeojson(cr[1]) = cr[2]

(***************************************************************************)
(* add_place_ids and add-kml                                               *)
(***************************************************************************)
StoredIds(store) == {store[i].google_place_id : i \in DOMAIN store}
\* the records a call appended to the store
Inserted(c) == SubSeq(c.after, Len(c.before) + 1, Len(c.after))

\* the call inserted no record for an id the store held, nor two for one id
NoInsertForHeldId(c) ==
    /\ \A i \in DOMAIN Inserted(c) :
         /\ Inserted(c)[i].google_place_id \notin StoredIds(c.before)
         /\ Inserted(c)[i].google_place_id \in Range(c.place_ids)
    /\ \A i, j \in DOMAIN Inserted(c) :
         Inserted(c)[i].google_place_id = Inserted(c)[j].google_place_id => i = j
\* the records the store held are still there, unchanged and in place
KeepsExisting(c) ==
    /\ Len(c.after) >= Len(c.before)
    /\ SubSeq(c.after, 1, Len(c.before)) = c.before
ReturnsInsertCount(c) == c.returned = Len(c.after) - Len(c.before)
\* call k repeats call k - 1: the same list, on the store that call left
Repeats(k) ==
    /\ k > 1
    /\ calls[k].done /\ calls[k - 1].done
    /\ calls[k].place_ids = calls[k - 1].place_ids
    /\ calls[k].before = calls[k - 1].after
InsertsNothing(c) == c.after = c.before /\ c.returned = 0

\* C16 as stated: add_place_ids never inserts a record for an id the store
\* holds, leaves the existing records unchanged, returns the number of records
\* it inserted, and a second call with the same ids inserts nothing and
\* returns 0.
C16_SkipIfExistsSecondCallAddsNothing ==
    command = "add_place_ids" =>
      \A k \in DOMAIN calls :
        /\ NoInsertForHeldId(calls[k])
        /\ KeepsExisting(calls[k])
        /\ ReturnsInsertCount(calls[k])
        /\ Repeats(k) => InsertsNothing(calls[k])

\* C16, amended: add_place_ids never inserts a record for an id the store
\* holds, leaves the existing records unchanged and returns the number of
\* records it inserted; a second call with the same ids inserts nothing and
\* returns 0 when the first call left every id of the list in the store (an
\* id the first call skipped because the details lookup or the create failed
\* is tried again).
C16_SkipIfExists ==
    command = "add_place_ids" =>
      \A k \in DOMAIN calls :
        /\ NoInsertForHeldId(calls[k])
        /\ KeepsExisting(calls[k])
        /\ ReturnsInsertCount(calls[k])
        /\ (Repeats(k) /\ Range(calls[k].place_ids) \subseteq StoredIds(calls[k].before))
             => InsertsNothing(calls[k])

\* the list <<g1, g1>> on an empty store: the first call inserts g1 once and
\* returns 1, the second call returns 0
C16_Witness ==
    /\ command = "add_place_ids" /\ pc = "done"
    /\ place_ids = <<"g1", "g1">>
    /\ Len(calls) = 2
    /\ calls[1].before = <<>>
    /\ calls[1].returned = 1
    /\ Repeats(2)
    /\ calls[2].returned = 0
    /\ Len(airtable) = 1

\* C19: in add-kml a placemark whose query returns no candidate or several is
\* appended to the skipped list and leads to no add_place_ids call, the store
\* changing through add_place_ids calls only; the skipped list is printed when
\* the run ends; and the run ends by raising only when a places query failed
\* (otherwise it terminates normally and prints the summary).
C19_AddKmlReportsSkipped ==
    command = "add_kml" =>
      /\ (pc = "loop" /\ cursor > 1) =>
           /\ Len(places_found) # 1 => Last(exceptions) = kml[cursor - 1]
           /\ Len(exceptions) + Len(calls) = cursor - 1
      /\ calls # <<>> => airtable = Last(calls).after
      /\ \A k \in DOMAIN calls : KeepsExisting(calls[k])
      /\ pc = "raised" => stdout = <<"EXCEPTIONS">> \o exceptions
      /\ pc = "raised" => (error = "ValueError" /\ places_found = None)

====
